---- MODULE Spec2Model ----
(***************************************************************************)
(* A model of griddy's Grid<T> (src/src/grid.rs): a Vec<Vec<T>> addressed  *)
(* by (row, col), its three constructors, its structural transforms, its   *)
(* adjacency queries, fold_at_row and the Index / IndexMut impls.          *)
(*                                                                         *)
(* A grid is a sequence of rows, a row a sequence of cells.  TLA+          *)
(* sequences start at 1 and the code's indices at 0, so cell (r, c) of the *)
(* code is g[r + 1][c + 1].  Every operation is an operator that returns   *)
(* an outcome [grid, ret, fault]: the grid after the call, the value       *)
(* returned, and the panic the call ended in (NoFault when it returned).   *)
(***************************************************************************)
EXTENDS Integers, Sequences, FiniteSets, TLC

VARIABLES
    grid,   \* self.grid, the Vec<Vec<T>> of the Grid the caller holds
    pre,    \* self.grid as it was when the last call started
    call,   \* the last call: its operation and arguments
    ret,    \* the value the last call returned (Unit when it returned nothing)
    fault,  \* the panic the last call ended in, or NoFault
    unchecked,  \* history: from_2d_unchecked or insert_row has been called
    resized     \* history: the caller changed a row's length through index_mut

vars == <<grid, pre, call, ret, fault, unchecked, resized>>

----------------------------------------------------------------------------
(* Bounds of the model.                                                    *)

\* Rows and columns of the grids of the general specifications.
MaxRows == 3
MaxCols == 3
\* Rows and columns of the grids fold_at_row is applied to.
FoldRows == 5
FoldCols == 1
\* Side of the grids rotate and transpose are applied to.
MaxSide == 3
\* Width of usize in the model (64 on the usual targets).
UsizeBits == 4

\* usize::MAX
UsizeMax == 2^UsizeBits - 1

\* The element type T: two distinguishable values.
Values == {0, 1}

Min(a, b) == IF a <= b THEN a ELSE b

----------------------------------------------------------------------------
(* usize arithmetic.  `a + b` panics on overflow when the build has        *)
(* overflow checks (debug) and wraps when it has not (release).            *)

AddOverflows(a, b) == a + b > UsizeMax

WrappingAdd(a, b) == (a + b) % (UsizeMax + 1)

----------------------------------------------------------------------------
(* Calls and outcomes.                                                     *)

\* `call` before the grid is constructed.
Unbuilt == [op |-> "unbuilt"]

\* `call` between two calls: the caller has taken the last outcome.
Idle == [op |-> "idle"]

Unit == <<>>

NoFault == [kind |-> "none", msg_index |-> 0, msg_rows |-> 0]

\* Vec's own index panic (slice index out of bounds), Vec::insert's panic.
VecPanic == [kind |-> "vec_index", msg_index |-> 0, msg_rows |-> 0]

\* "attempt to add with overflow"
OverflowPanic == [kind |-> "overflow", msg_index |-> 0, msg_rows |-> 0]

Returned(g, r) == [grid |-> g, ret |-> r, fault |-> NoFault]

Panicked(g, f) == [grid |-> g, ret |-> Unit, fault |-> f]

----------------------------------------------------------------------------
(* Sizes.                                                                  *)

rows_len(g) == Len(g)

cols_len(g) == IF Len(g) = 0 THEN 0 ELSE Len(g[1])

\* Every row has the same length.
Rectangular(g) == \A i, j \in 1..Len(g) : Len(g[i]) = Len(g[j])

----------------------------------------------------------------------------
(* Constructors.                                                           *)

\* init with the row count used for the length of a row too.
init_square(rows, cols, value) == [r \in 1..rows |-> [c \in 1..rows |-> value]]

\* vec![value.clone(); cols] pushed `rows` times.
init(rows, cols, value) == [r \in 1..rows |-> [c \in 1..cols |-> value]]

\* Insertion of x into the sorted sequence s.
RECURSIVE SortedInsert(_, _)
SortedInsert(s, x) ==
    IF s = <<>> THEN <<x>>
    ELSE IF x <= Head(s) THEN <<x>> \o s
    ELSE <<Head(s)>> \o SortedInsert(Tail(s), x)

\* c.sort()
RECURSIVE Sort(_)
Sort(s) == IF s = <<>> THEN <<>> ELSE SortedInsert(Sort(Tail(s)), Head(s))

\* c.dedup(): removes consecutive repeated elements.
RECURSIVE Dedup(_)
Dedup(s) ==
    IF Len(s) <= 1 THEN s
    ELSE IF s[1] = s[2] THEN Dedup(Tail(s))
    ELSE <<s[1]>> \o Dedup(Tail(s))

\* The row lengths collected and sorted, c.dedup() left out.
DistinctLensNoDedup(data) == Sort([i \in 1..Len(data) |-> Len(data[i])])

\* The row lengths from_2d collects, sorts and dedups.
DistinctLens(data) == Dedup(Sort([i \in 1..Len(data) |-> Len(data[i])]))

\* from_2d that tolerates two distinct row lengths (c.len() > 2).
from_2d_lax(data) ==
    IF Len(DistinctLens(data)) > 2
    THEN [grid |-> <<>>, tag |-> "Err"]
    ELSE [grid |-> data, tag |-> "Ok"]

from_2d(data) ==
    IF Len(DistinctLens(data)) > 1
    THEN [grid |-> <<>>, tag |-> "Err"]
    ELSE [grid |-> data, tag |-> "Ok"]

from_2d_unchecked(data) == data

----------------------------------------------------------------------------
(* Structural transforms.                                                  *)

\* self.grid.insert(idx, row): Vec::insert panics when idx > len.
insert_row(g, idx, row) ==
    IF idx > Len(g) THEN Panicked(g, VecPanic)
    ELSE Returned(SubSeq(g, 1, idx) \o <<row>> \o SubSeq(g, idx + 1, Len(g)), Unit)

\* The loops of transpose with the inner one starting at y = 1
\* (`for y in 1..rows_len`), which leaves g[x][0] at the seed.
RECURSIVE TransposeFillFrom1(_, _, _)
TransposeFillFrom1(t, g, i) ==
    IF i >= cols_len(g) * rows_len(g) THEN Returned(g, t)
    ELSE LET x == i \div rows_len(g)
             y == i % rows_len(g)
         IN  IF y = 0 THEN TransposeFillFrom1(t, g, i + 1)
             ELSE IF x >= Len(g[y + 1]) THEN Panicked(g, VecPanic)
             ELSE TransposeFillFrom1([t EXCEPT ![x + 1][y + 1] = g[y + 1][x + 1]],
                                     g, i + 1)

\* The loops `for x in 0..cols_len { for y in 0..rows_len { g[x][y] =
\* self.grid[y][x] } }` from their step i on, step i being x = i \div rows_len
\* and y = i % rows_len; t is the new grid g so far.  self.grid[y][x] is a
\* Vec index panic when row y is shorter than cols_len.  self is not written.
RECURSIVE TransposeFill(_, _, _)
TransposeFill(t, g, i) ==
    IF i >= cols_len(g) * rows_len(g) THEN Returned(g, t)
    ELSE LET x == i \div rows_len(g)
             y == i % rows_len(g)
         IN  IF x >= Len(g[y + 1]) THEN Panicked(g, VecPanic)
             ELSE TransposeFill([t EXCEPT ![x + 1][y + 1] = g[y + 1][x + 1]], g, i + 1)

\* The seed self.grid[0][0] is read first: a Vec index panic on a grid with
\* no row or with an empty first row.
transpose(g) ==
    IF Len(g) = 0 \/ Len(g[1]) = 0 THEN Panicked(g, VecPanic)
    ELSE TransposeFill(init(cols_len(g), rows_len(g), g[1][1]), g, 0)

\* t of rotate with the rows taken top down (the `.rev()` left out): the
\* pushes for the rows from `row` back to rows_len - 1.
RECURSIVE RotateColumnForward(_, _, _)
RotateColumnForward(g, column, row) ==
    IF row < 0 THEN <<>>
    ELSE RotateColumnForward(g, column, row - 1) \o <<g[row + 1][column + 1]>>

\* t of rotate for one column: t.push(self.grid[row][column]) for row from
\* `row` down to 0.
RECURSIVE RotateColumn(_, _, _)
RotateColumn(g, column, row) ==
    IF row < 0 THEN <<>>
    ELSE <<g[row + 1][column + 1]>> \o RotateColumn(g, column, row - 1)

\* temp of rotate: one t per column in 0..rows_len.
RotateTemp(g) ==
    [column \in 1..rows_len(g) |-> RotateColumn(g, column - 1, rows_len(g) - 1)]

\* Building temp reads self.grid[row][column] for every row and every
\* column < rows_len: a Vec index panic, before anything is written, when a
\* row is shorter than rows_len.  Then self.grid[i][j] = temp[i][j] for
\* i, j < rows_len; the cells of a row past rows_len are kept.
rotate(g) ==
    LET n == rows_len(g)
    IN  IF \E r \in 1..n : Len(g[r]) < n THEN Panicked(g, VecPanic)
        ELSE Returned([i \in 1..n |->
                          RotateTemp(g)[i] \o SubSeq(g[i], n + 1, Len(g[i]))], Unit)

\* r.reverse()
Reverse(s) == [i \in 1..Len(s) |-> s[Len(s) - i + 1]]

flip_y(g) == Returned([i \in 1..Len(g) |-> Reverse(g[i])], Unit)

\* A truncate that keeps the row at index `size` as well.
truncate_rows_keep(g, size) == SubSeq(g, 1, Min(size + 1, Len(g)))

\* self.grid.truncate(size)
truncate_rows(g, size) == SubSeq(g, 1, Min(size, Len(g)))

----------------------------------------------------------------------------
(* fold_at_row.                                                            *)

\* The closures the callers pass: `new + old` (the tests; the addition is
\* that of a T with as many values as Values) and one that overwrites the
\* new cell with the old value (the doc comment of fold_at_row).
Combiners == {"add", "old"}

Combine(f, new, old) ==
    IF f = "add" THEN (new + old) % Cardinality(Values) ELSE old

\* The cell loop of fold_at_row with the arguments of f exchanged:
\* f(&grid[y][x], &grid[ny][x]).
RECURSIVE FoldCellsSwapped(_, _, _, _, _)
FoldCellsSwapped(g, ny, y, x, f) ==
    IF x >= cols_len(g) THEN [grid |-> g, fault |-> NoFault]
    ELSE IF ny >= Len(g) \/ x >= Len(g[ny + 1]) \/ x >= Len(g[y + 1])
         THEN [grid |-> g, fault |-> VecPanic]
    ELSE FoldCellsSwapped([g EXCEPT ![ny + 1][x + 1] =
                               Combine(f, g[y + 1][x + 1], g[ny + 1][x + 1])],
                          ny, y, x + 1, f)

\* for x in 0..self.cols_len() { grid[ny][x] = f(&grid[ny][x], &grid[y][x]) }
\* from column x on; ny and y are the code's 0-based rows.
RECURSIVE FoldCells(_, _, _, _, _)
FoldCells(g, ny, y, x, f) ==
    IF x >= cols_len(g) THEN [grid |-> g, fault |-> NoFault]
    ELSE IF ny >= Len(g) \/ x >= Len(g[ny + 1]) \/ x >= Len(g[y + 1])
         THEN [grid |-> g, fault |-> VecPanic]
    ELSE FoldCells([g EXCEPT ![ny + 1][x + 1] =
                        Combine(f, g[ny + 1][x + 1], g[y + 1][x + 1])],
                   ny, y, x + 1, f)

\* The loop `for y in start..rows_len` from its k-th iteration on: y is
\* start + k and new_y.next() is row - 1 - k, None (break) once that is
\* below 0.
RECURSIVE FoldPairs(_, _, _, _, _)
FoldPairs(g, row, start, k, f) ==
    IF start + k >= rows_len(g) \/ row - 1 - k < 0
    THEN [grid |-> g, fault |-> NoFault]
    ELSE LET r == FoldCells(g, row - 1 - k, start + k, 0, f)
         IN  IF r.fault # NoFault THEN r
             ELSE FoldPairs(r.grid, row, start, k + 1, f)

\* `checks`: the build has overflow checks, so row + 1 panics at usize::MAX.
fold_at_row(g, row, f, checks) ==
    IF AddOverflows(row, 1) /\ checks THEN Panicked(g, OverflowPanic)
    ELSE LET r == FoldPairs(g, row, WrappingAdd(row, 1), 0, f)
         IN  IF r.fault # NoFault THEN Panicked(r.grid, r.fault)
             ELSE Returned(truncate_rows(r.grid, row),
                           rows_len(truncate_rows(r.grid, row)))

----------------------------------------------------------------------------
(* Index and IndexMut.                                                     *)

\* panic!("index {:?} out of bounds. Grid has {:?} rows.", self.grid.len(), idx):
\* msg_index is the number the message prints after "index", msg_rows the
\* number it prints before "rows".
index(g, idx) ==
    IF idx >= Len(g)
    THEN Panicked(g, [kind |-> "grid_index", msg_index |-> Len(g), msg_rows |-> idx])
    ELSE Returned(g, g[idx + 1])

index_mut(g, idx) ==
    IF idx >= Len(g)
    THEN Panicked(g, [kind |-> "grid_index", msg_index |-> Len(g), msg_rows |-> idx])
    ELSE Returned(g, g[idx + 1])

\* grid[idx][col] = value: index_mut, then Vec's own IndexMut on the row.
SetCell(g, idx, col, value) ==
    LET r == index_mut(g, idx)
    IN  IF r.fault # NoFault THEN r
        ELSE IF col >= Len(r.ret) THEN Panicked(g, VecPanic)
        ELSE Returned([g EXCEPT ![idx + 1][col + 1] = value], Unit)

\* grid[idx] = row: the row index_mut lends is overwritten whole.
AssignRow(g, idx, row) ==
    LET r == index_mut(g, idx)
    IN  IF r.fault # NoFault THEN r
        ELSE Returned([g EXCEPT ![idx + 1] = row], Unit)

----------------------------------------------------------------------------
(* Adjacency queries.  Each returns a Vec<(usize, usize)>, modelled as a   *)
(* sequence of <<row, col>> pairs.  `checks` is as for fold_at_row.  In    *)
(* diag_neighbors col + 1 is evaluated only under `if let Some(up)` or     *)
(* `if down < rows_len`, row + 1 always.                                   *)

row_left_coords(g, row, col) ==
    IF row >= rows_len(g) \/ col >= cols_len(g) THEN Returned(g, <<>>)
    ELSE Returned(g, [i \in 1..col |-> <<row, i - 1>>])

row_right_coords(g, row, col, checks) ==
    IF row >= rows_len(g) \/ col >= cols_len(g) THEN Returned(g, <<>>)
    ELSE IF AddOverflows(col, 1) /\ checks THEN Panicked(g, OverflowPanic)
    ELSE LET first == WrappingAdd(col, 1)
         IN  Returned(g, [i \in 1..(cols_len(g) - first) |-> <<row, first + i - 1>>])

col_up_coords(g, row, col) ==
    IF row >= rows_len(g) \/ col >= cols_len(g) THEN Returned(g, <<>>)
    ELSE Returned(g, [i \in 1..row |-> <<i - 1, col>>])

col_down_coords(g, row, col, checks) ==
    IF row >= rows_len(g) \/ col >= cols_len(g) THEN Returned(g, <<>>)
    ELSE IF AddOverflows(row, 1) /\ checks THEN Panicked(g, OverflowPanic)
    ELSE LET first == WrappingAdd(row, 1)
         IN  Returned(g, [i \in 1..(rows_len(g) - first) |-> <<first + i - 1, col>>])

\* row_neighbors with `>` for `>=` in its bounds test.
row_neighbors_gt(g, row, col, checks) ==
    IF row > rows_len(g) \/ col > cols_len(g) THEN Returned(g, <<>>)
    ELSE IF AddOverflows(col, 1) /\ checks THEN Panicked(g, OverflowPanic)
    ELSE LET left  == IF col >= 1 THEN << <<row, col - 1>> >> ELSE <<>>
             right == WrappingAdd(col, 1)
         IN  Returned(g, left \o (IF right < cols_len(g)
                                  THEN << <<row, right>> >> ELSE <<>>))

row_neighbors(g, row, col, checks) ==
    IF row >= rows_len(g) \/ col >= cols_len(g) THEN Returned(g, <<>>)
    ELSE IF AddOverflows(col, 1) /\ checks THEN Panicked(g, OverflowPanic)
    ELSE LET left  == IF col >= 1 THEN << <<row, col - 1>> >> ELSE <<>>
             right == WrappingAdd(col, 1)
         IN  Returned(g, left \o (IF right < cols_len(g)
                                  THEN << <<row, right>> >> ELSE <<>>))

col_neighbors(g, row, col, checks) ==
    IF row >= rows_len(g) \/ col >= cols_len(g) THEN Returned(g, <<>>)
    ELSE IF AddOverflows(row, 1) /\ checks THEN Panicked(g, OverflowPanic)
    ELSE LET up   == IF row >= 1 THEN << <<row - 1, col>> >> ELSE <<>>
             down == WrappingAdd(row, 1)
         IN  Returned(g, up \o (IF down < rows_len(g)
                                THEN << <<down, col>> >> ELSE <<>>))

diag_neighbors(g, row, col, checks) ==
    IF row >= rows_len(g) \/ col >= cols_len(g) THEN Returned(g, <<>>)
    ELSE IF checks /\ (\/ AddOverflows(row, 1)
                       \/ /\ AddOverflows(col, 1)
                          /\ (row >= 1 \/ WrappingAdd(row, 1) < rows_len(g)))
         THEN Panicked(g, OverflowPanic)
    ELSE LET right == WrappingAdd(col, 1)
             down  == WrappingAdd(row, 1)
             lefts(r)  == IF col >= 1 THEN << <<r, col - 1>> >> ELSE <<>>
             rights(r) == IF right < cols_len(g) THEN << <<r, right>> >> ELSE <<>>
             ups   == IF row >= 1 THEN lefts(row - 1) \o rights(row - 1) ELSE <<>>
             downs == IF down < rows_len(g) THEN lefts(down) \o rights(down) ELSE <<>>
         IN  Returned(g, ups \o downs)

\* neighbors with diag_neighbors appended before col_neighbors.
neighbors_diag_first(g, row, col, checks) ==
    LET rn == row_neighbors(g, row, col, checks)
        cn == col_neighbors(g, row, col, checks)
        dn == diag_neighbors(g, row, col, checks)
    IN  IF rn.fault # NoFault THEN rn
        ELSE IF dn.fault # NoFault THEN dn
        ELSE IF cn.fault # NoFault THEN cn
        ELSE Returned(g, rn.ret \o dn.ret \o cn.ret)

\* row_neighbors, then col_neighbors and diag_neighbors appended; the first
\* of them that panics ends the call.
neighbors(g, row, col, checks) ==
    LET rn == row_neighbors(g, row, col, checks)
        cn == col_neighbors(g, row, col, checks)
        dn == diag_neighbors(g, row, col, checks)
    IN  IF rn.fault # NoFault THEN rn
        ELSE IF cn.fault # NoFault THEN cn
        ELSE IF dn.fault # NoFault THEN dn
        ELSE Returned(g, rn.ret \o cn.ret \o dn.ret)

----------------------------------------------------------------------------
(* The inputs of the calls.                                                *)

\* The one-valued element type (T = ()), for what depends on shape alone.
UnitValues == {0}

\* usize arguments around a length n: every index below n, n itself, n + 1,
\* and usize::MAX.
IdxArgs(n) == 0..(n + 1) \cup {UsizeMax}

\* Every Vec<T> of at most maxc elements.
RowsOver(T, maxc) == UNION {[1..n -> T] : n \in 0..maxc}

\* Every Vec<Vec<T>> of at most maxr rows of at most maxc elements each.
GridsOver(T, maxr, maxc) == UNION {[1..n -> RowsOver(T, maxc)] : n \in 0..maxr}

\* Those of them whose rows all have one length.
RectGridsOver(T, maxr, maxc) ==
    UNION {[1..r -> [1..c -> T]] : r \in 0..maxr, c \in 0..maxc}

----------------------------------------------------------------------------
(* The calls.  The caller constructs its grid once and then makes one call *)
(* at a time: a call records itself in `call`, the grid it started from in *)
(* `pre` (the empty grid for a constructor, which has no self), and its    *)
(* outcome in grid, ret and fault; Resume is the caller going on after it  *)
(* has taken the outcome (a caller that catches a panic goes on with the   *)
(* grid as the panic left it).                                             *)

\* No grid is constructed yet.
NotBuilt == call.op = "unbuilt"

\* The grid is constructed and no call is under way.
Ready == call.op = "idle"

\* The call c, started from the grid p, is grid[idx] = row with a row of
\* another length than the one it replaces.
Resizes(c, p, out) ==
    /\ c.op = "index_mut_assign"
    /\ out.fault = NoFault
    /\ Len(c.row) # Len(p[c.idx + 1])

Step(c, p, out) ==
    /\ call' = c
    /\ pre' = p
    /\ grid' = out.grid
    /\ ret' = out.ret
    /\ fault' = out.fault
    /\ unchecked' = (unchecked \/ c.op \in {"from_2d_unchecked", "insert_row"})
    /\ resized' = (resized \/ Resizes(c, p, out))

Resume ==
    /\ ~NotBuilt
    /\ ~Ready
    /\ call' = Idle
    /\ pre' = <<>>
    /\ ret' = Unit
    /\ fault' = NoFault
    /\ UNCHANGED <<grid, unchecked, resized>>

CallInit(T) ==
    /\ NotBuilt
    /\ \E rows \in 0..MaxRows, cols \in 0..MaxCols, value \in T :
           Step([op |-> "init", rows |-> rows, cols |-> cols, value |-> value],
                <<>>, Returned(init(rows, cols, value), Unit))

\* ret is the tag of the Result; after an Err the caller holds no grid, which
\* the model leaves as the empty one.
CallFrom2d(T) ==
    /\ NotBuilt
    /\ \E data \in GridsOver(T, MaxRows, MaxCols) :
           Step([op |-> "from_2d", data |-> data],
                <<>>, Returned(from_2d(data).grid, from_2d(data).tag))

CallFrom2dUnchecked(T) ==
    /\ NotBuilt
    /\ \E data \in GridsOver(T, MaxRows, MaxCols) :
           Step([op |-> "from_2d_unchecked", data |-> data],
                <<>>, Returned(from_2d_unchecked(data), Unit))

CallInsertRow(T) ==
    /\ Ready
    /\ rows_len(grid) < MaxRows
    /\ \E idx \in IdxArgs(rows_len(grid)), row \in RowsOver(T, MaxCols) :
           Step([op |-> "insert_row", idx |-> idx, row |-> row],
                grid, insert_row(grid, idx, row))

CallTranspose == Ready /\ Step([op |-> "transpose"], grid, transpose(grid))

CallRotate == Ready /\ Step([op |-> "rotate"], grid, rotate(grid))

CallFlipY == Ready /\ Step([op |-> "flip_y"], grid, flip_y(grid))

CallTruncateRows ==
    /\ Ready
    /\ \E size \in IdxArgs(rows_len(grid)) :
           Step([op |-> "truncate_rows", size |-> size],
                grid, Returned(truncate_rows(grid, size), Unit))

CallFoldAtRow ==
    /\ Ready
    /\ \E row \in IdxArgs(rows_len(grid)), f \in Combiners, checks \in BOOLEAN :
           Step([op |-> "fold_at_row", row |-> row, combine |-> f],
                grid, fold_at_row(grid, row, f, checks))

CallIndex ==
    /\ Ready
    /\ \E idx \in IdxArgs(rows_len(grid)) :
           Step([op |-> "index", idx |-> idx], grid, index(grid, idx))

CallSetCell(T) ==
    /\ Ready
    /\ \E idx \in IdxArgs(rows_len(grid)), col \in IdxArgs(MaxCols), value \in T :
           Step([op |-> "index_mut_set", idx |-> idx, col |-> col, elem |-> value],
                grid, SetCell(grid, idx, col, value))

CallAssignRow(T) ==
    /\ Ready
    /\ \E idx \in IdxArgs(rows_len(grid)), row \in RowsOver(T, MaxCols) :
           Step([op |-> "index_mut_assign", idx |-> idx, row |-> row],
                grid, AssignRow(grid, idx, row))

\* The (row, col) arguments of the adjacency queries.
CoordArgs == IdxArgs(rows_len(grid)) \X IdxArgs(cols_len(grid))

CallRowLeftCoords ==
    /\ Ready
    /\ \E rc \in CoordArgs :
           Step([op |-> "row_left_coords", row |-> rc[1], col |-> rc[2]],
                grid, row_left_coords(grid, rc[1], rc[2]))

CallRowRightCoords ==
    /\ Ready
    /\ \E rc \in CoordArgs, checks \in BOOLEAN :
           Step([op |-> "row_right_coords", row |-> rc[1], col |-> rc[2]],
                grid, row_right_coords(grid, rc[1], rc[2], checks))

CallColUpCoords ==
    /\ Ready
    /\ \E rc \in CoordArgs :
           Step([op |-> "col_up_coords", row |-> rc[1], col |-> rc[2]],
                grid, col_up_coords(grid, rc[1], rc[2]))

CallColDownCoords ==
    /\ Ready
    /\ \E rc \in CoordArgs, checks \in BOOLEAN :
           Step([op |-> "col_down_coords", row |-> rc[1], col |-> rc[2]],
                grid, col_down_coords(grid, rc[1], rc[2], checks))

CallRowNeighbors ==
    /\ Ready
    /\ \E rc \in CoordArgs, checks \in BOOLEAN :
           Step([op |-> "row_neighbors", row |-> rc[1], col |-> rc[2]],
                grid, row_neighbors(grid, rc[1], rc[2], checks))

CallColNeighbors ==
    /\ Ready
    /\ \E rc \in CoordArgs, checks \in BOOLEAN :
           Step([op |-> "col_neighbors", row |-> rc[1], col |-> rc[2]],
                grid, col_neighbors(grid, rc[1], rc[2], checks))

CallDiagNeighbors ==
    /\ Ready
    /\ \E rc \in CoordArgs, checks \in BOOLEAN :
           Step([op |-> "diag_neighbors", row |-> rc[1], col |-> rc[2]],
                grid, diag_neighbors(grid, rc[1], rc[2], checks))

CallNeighbors ==
    /\ Ready
    /\ \E rc \in CoordArgs, checks \in BOOLEAN :
           Step([op |-> "neighbors", row |-> rc[1], col |-> rc[2]],
                grid, neighbors(grid, rc[1], rc[2], checks))

----------------------------------------------------------------------------
(* Specifications.                                                         *)

\* Nothing is constructed yet: the caller's grid is modelled as the empty one.
Init ==
    /\ grid = <<>>
    /\ pre = <<>>
    /\ call = Unbuilt
    /\ ret = Unit
    /\ fault = NoFault
    /\ unchecked = FALSE
    /\ resized = FALSE

\* The caller holds the grid g and is between two calls.
Holding(g) ==
    /\ grid = g
    /\ pre = <<>>
    /\ call = Idle
    /\ ret = Unit
    /\ fault = NoFault
    /\ unchecked = FALSE
    /\ resized = FALSE

\* Every operation, on a Grid<()>.
Next ==
    \/ Resume
    \/ CallInit(UnitValues)
    \/ CallFrom2d(UnitValues)
    \/ CallFrom2dUnchecked(UnitValues)
    \/ CallInsertRow(UnitValues)
    \/ CallTranspose
    \/ CallRotate
    \/ CallFlipY
    \/ CallTruncateRows
    \/ CallFoldAtRow
    \/ CallIndex
    \/ CallSetCell(UnitValues)
    \/ CallAssignRow(UnitValues)
    \/ CallRowLeftCoords
    \/ CallRowRightCoords
    \/ CallColUpCoords
    \/ CallColDownCoords
    \/ CallRowNeighbors
    \/ CallColNeighbors
    \/ CallDiagNeighbors
    \/ CallNeighbors

\* Grid<()>: a grid of any shape within the bounds is constructed, and then
\* every operation is called on it, in any order.
Spec == Init /\ [][Next]_vars

\* The constructors over a two-valued element type.
CtorNext ==
    \/ CallInit(Values)
    \/ CallFrom2d(Values)

CtorSpec == Init /\ [][CtorNext]_vars

\* fold_at_row on every rectangular two-valued grid of at most FoldRows rows
\* and FoldCols columns.
FoldInit ==
    \E data \in RectGridsOver(Values, FoldRows, FoldCols) :
        from_2d(data).tag = "Ok" /\ Holding(from_2d(data).grid)

FoldNext ==
    \/ Resume
    \/ CallFoldAtRow

FoldSpec == FoldInit /\ [][FoldNext]_vars

\* transpose, rotate and flip_y on every rectangular two-valued grid of at
\* most MaxSide rows and columns.
TransformInit ==
    \E data \in RectGridsOver(Values, MaxSide, MaxSide) :
        from_2d(data).tag = "Ok" /\ Holding(from_2d(data).grid)

TransformNext ==
    \/ Resume
    \/ CallTranspose
    \/ CallRotate
    \/ CallFlipY

TransformSpec == TransformInit /\ [][TransformNext]_vars

----------------------------------------------------------------------------
(* Properties.                                                             *)

MutatingOps ==
    {"transpose", "rotate", "flip_y", "truncate_rows", "fold_at_row",
     "index_mut_set", "index_mut_assign"}

QueryOps ==
    {"row_left_coords", "row_right_coords", "col_up_coords", "col_down_coords",
     "row_neighbors", "col_neighbors", "diag_neighbors", "neighbors"}

IndexOps == {"index", "index_mut_set", "index_mut_assign"}

\* C1 as the claim states it: a grid built by init or a successful from_2d
\* and operated on by anything but from_2d_unchecked and insert_row (mutable
\* indexed access included) has rows of one length.
C1_AsStated == ~unchecked => Rectangular(grid)

\* C1: a grid built by init or a successful from_2d, on which neither
\* from_2d_unchecked nor insert_row has been called and on which no mutable
\* indexed access has replaced a row by one of another length, has rows of one
\* length after every call, whether the call returned or panicked; and the
\* grid transpose returns from it has rows of one length too.
C1_Rectangularity ==
    (~unchecked /\ ~resized) =>
        /\ Rectangular(grid)
        /\ (call.op = "transpose" /\ fault = NoFault) => Rectangular(ret)

\* A fold that paired rows of a grid of two columns at least, on which no
\* escape was used.
C1_Witness ==
    /\ ~unchecked
    /\ ~resized
    /\ call.op = "fold_at_row"
    /\ fault = NoFault
    /\ call.row >= 1
    /\ rows_len(pre) > call.row + 1
    /\ cols_len(grid) >= 2

\* C5: every adjacency query called with row >= rows_len() or
\* col >= cols_len() returns the empty sequence and does not panic, for every
\* usize row and col (usize::MAX included), every grid (the empty one and
\* those with rows of different lengths included), with and without overflow
\* checks.
C5_OutOfBoundsQueryIsEmpty ==
    (call.op \in QueryOps /\ (call.row >= rows_len(pre) \/ call.col >= cols_len(pre)))
        => (fault = NoFault /\ ret = <<>> /\ grid = pre)

\* neighbors of (usize::MAX, usize::MAX) on a grid that has cells.
C5_Witness ==
    /\ call.op = "neighbors"
    /\ call.row = UsizeMax
    /\ call.col = UsizeMax
    /\ rows_len(pre) >= 1
    /\ cols_len(pre) >= 1
    /\ ret = <<>>
    /\ fault = NoFault

\* The eight cells around (row, col) in the order left, right, up, down,
\* up-left, up-right, down-left, down-right.
Around(row, col) ==
    << <<row, col - 1>>, <<row, col + 1>>, <<row - 1, col>>, <<row + 1, col>>,
       <<row - 1, col - 1>>, <<row - 1, col + 1>>,
       <<row + 1, col - 1>>, <<row + 1, col + 1>> >>

InBounds(g, rc) ==
    /\ 0 <= rc[1] /\ rc[1] < rows_len(g)
    /\ 0 <= rc[2] /\ rc[2] < cols_len(g)

RECURSIVE Keep(_, _)
Keep(g, cells) ==
    IF cells = <<>> THEN <<>>
    ELSE (IF InBounds(g, Head(cells)) THEN <<Head(cells)>> ELSE <<>>)
             \o Keep(g, Tail(cells))

\* C6: for an in-bounds (row, col) of a rectangular grid, neighbors returns
\* the in-bounds cells among left, right, up, down, up-left, up-right,
\* down-left, down-right, in that order, which is row_neighbors, then
\* col_neighbors, then diag_neighbors.
C6_NeighborsOrder ==
    (/\ call.op = "neighbors"
     /\ Rectangular(pre)
     /\ call.row < rows_len(pre)
     /\ call.col < cols_len(pre))
        => /\ fault = NoFault
           /\ ret = Keep(pre, Around(call.row, call.col))
           /\ \A checks \in BOOLEAN :
                  ret = row_neighbors(pre, call.row, call.col, checks).ret
                            \o col_neighbors(pre, call.row, call.col, checks).ret
                            \o diag_neighbors(pre, call.row, call.col, checks).ret

\* neighbors of a cell that has all eight of them.
C6_Witness ==
    /\ call.op = "neighbors"
    /\ Rectangular(pre)
    /\ Len(ret) = 8

\* C9 as the claim states it: indexing with idx >= the row count panics with a
\* message that gives idx as the index and the row count as the number of
\* rows; indexing with idx below the row count does not panic in the grid's
\* Index/IndexMut and yields that row.
C9_AsStated ==
    call.op \in IndexOps =>
        IF call.idx >= rows_len(pre)
        THEN /\ fault.kind = "grid_index"
             /\ fault.msg_index = call.idx
             /\ fault.msg_rows = rows_len(pre)
        ELSE /\ fault.kind # "grid_index"
             /\ call.op = "index" => ret = pre[call.idx + 1]

\* The number of distinct row lengths of data.
NumLens(data) == Cardinality({Len(data[i]) : i \in 1..Len(data)})

\* C2: from_2d(data) is Err(UnequalColumnsError) exactly when the rows of data
\* have two or more distinct lengths; otherwise it is Ok and the grid holds
\* the rows of data, in their order and with their elements.
C2_From2dValidates ==
    call.op = "from_2d" =>
        /\ ret \in {"Ok", "Err"}
        /\ ret = "Err" <=> NumLens(call.data) >= 2
        /\ ret = "Ok" => grid = call.data

\* A successful from_2d of two rows of different contents.
C2_Witness ==
    /\ call.op = "from_2d"
    /\ ret = "Ok"
    /\ rows_len(grid) >= 2
    /\ cols_len(grid) >= 1
    /\ grid[1] # grid[2]

\* C3 as the claim states it: init(rows, cols, v) has rows_len() = rows and
\* cols_len() = cols for all rows and cols, 0 included.
C3_AsStated ==
    call.op = "init" =>
        (rows_len(grid) = call.rows /\ cols_len(grid) = call.cols)

\* C3: init(rows, cols, v) has rows_len() = rows for all rows and cols;
\* cols_len() = cols when rows >= 1, and cols_len() = 0 when rows = 0,
\* whatever cols is.  Every cell is v.
C3_InitDimensions ==
    call.op = "init" =>
        /\ rows_len(grid) = call.rows
        /\ cols_len(grid) = (IF call.rows = 0 THEN 0 ELSE call.cols)
        /\ \A r \in 1..call.rows :
               /\ Len(grid[r]) = call.cols
               /\ \A c \in 1..call.cols : grid[r][c] = call.value

\* init with no rows and cols >= 1.
C3_Witness ==
    /\ call.op = "init"
    /\ call.rows = 0
    /\ call.cols >= 1
    /\ cols_len(grid) = 0

\* C4: for a rectangular grid of R >= 1 rows and C >= 1 columns, transpose
\* returns a grid of C rows and R columns with result[c][r] = self[r][c] for
\* every in-bounds (r, c), and leaves self as it was.
C4_Transpose ==
    (/\ call.op = "transpose"
     /\ Rectangular(pre)
     /\ rows_len(pre) >= 1
     /\ cols_len(pre) >= 1)
        => /\ fault = NoFault
           /\ grid = pre
           /\ rows_len(ret) = cols_len(pre)
           /\ \A c \in 1..cols_len(pre) :
                  /\ Len(ret[c]) = rows_len(pre)
                  /\ \A r \in 1..rows_len(pre) : ret[c][r] = pre[r][c]

\* transpose of a 2 by 3 grid whose cells are not all equal.
C4_Witness ==
    /\ call.op = "transpose"
    /\ fault = NoFault
    /\ rows_len(pre) = 2
    /\ cols_len(pre) = 3
    /\ \E c \in 1..3 : pre[1][c] # pre[2][c]
    /\ \E c \in 2..3 : pre[1][c] # pre[1][1]

\* The number of row pairs fold_at_row(row, _) combines on a grid of R rows.
NumPairs(R, row) == IF row >= R THEN 0 ELSE Min(row, R - row - 1)

\* C7: fold_at_row(row, combine) on a rectangular grid of R rows pairs row
\* row-k with row row+k for exactly k = 1 .. min(row, R - row - 1): the cell
\* (row-k, x) becomes combine(old[row-k][x], old[row+k][x]), the upper cell
\* first, and every other row above `row` is as it was (all of them when row
\* is 0 or R-1).  A call that panics has changed no cell.
C7_FoldPairing ==
    (call.op = "fold_at_row" /\ Rectangular(pre)) =>
        IF fault # NoFault THEN grid = pre
        ELSE \A r \in 0..(rows_len(grid) - 1) :
                 /\ Len(grid[r + 1]) = Len(pre[r + 1])
                 /\ \A x \in 1..cols_len(pre) :
                        grid[r + 1][x] =
                            IF call.row - r \in 1..NumPairs(rows_len(pre), call.row)
                            THEN Combine(call.combine, pre[r + 1][x],
                                         pre[2 * call.row - r + 1][x])
                            ELSE pre[r + 1][x]

\* A fold of five rows at row 2 that overwrites the new cell with the old
\* one and so changes both rows it keeps.
C7_Witness ==
    /\ call.op = "fold_at_row"
    /\ call.combine = "old"
    /\ call.row = 2
    /\ rows_len(pre) = 5
    /\ fault = NoFault
    /\ grid[1] # pre[1]
    /\ grid[2] # pre[2]
    /\ pre[4] # pre[5]

\* C8 as the claim states it: after fold_at_row(row, combine) has returned,
\* whatever row is, the grid has `row` rows and the value returned is the
\* grid's row count.
C8_AsStated ==
    (call.op = "fold_at_row" /\ fault = NoFault) =>
        (rows_len(grid) = call.row /\ ret = rows_len(grid))

\* C8: fold_at_row(row, combine) on a rectangular grid of R rows returns for
\* every row below usize::MAX (at usize::MAX it returns only when the build
\* has no overflow checks and the grid has no row or no column); when it has
\* returned, the rows at or past index `row` are discarded, so the grid has
\* min(row, R) rows, and the value returned is the grid's row count.
C8_FoldTruncates ==
    (call.op = "fold_at_row" /\ Rectangular(pre)) =>
        /\ call.row < UsizeMax => fault = NoFault
        /\ fault # NoFault =>
               \/ fault = OverflowPanic
               \/ (rows_len(pre) >= 1 /\ cols_len(pre) >= 1)
        /\ fault = NoFault =>
               /\ rows_len(grid) = Min(call.row, rows_len(pre))
               /\ ret = rows_len(grid)

\* A fold at a row past the last one: the grid keeps its rows.
C8_Witness ==
    /\ call.op = "fold_at_row"
    /\ fault = NoFault
    /\ rows_len(pre) >= 1
    /\ call.row = rows_len(pre) + 1
    /\ ret = rows_len(pre)

\* C10: on a square n by n grid rotate turns the grid clockwise by 90
\* degrees in place: the new cell (c, k) is the old cell (n-1-k, c) for all
\* c, k in 0..n, and the grid stays n by n.
C10_RotateSquare ==
    (/\ call.op = "rotate"
     /\ Rectangular(pre)
     /\ rows_len(pre) = cols_len(pre))
        => /\ fault = NoFault
           /\ rows_len(grid) = rows_len(pre)
           /\ \A c \in 0..(rows_len(pre) - 1) :
                  /\ Len(grid[c + 1]) = rows_len(pre)
                  /\ \A k \in 0..(rows_len(pre) - 1) :
                         grid[c + 1][k + 1] = pre[rows_len(pre) - 1 - k + 1][c + 1]

\* rotate of a 3 by 3 grid that differs from its mirror image in the
\* diagonal.
C10_Witness ==
    /\ call.op = "rotate"
    /\ fault = NoFault
    /\ rows_len(pre) = 3
    /\ cols_len(pre) = 3
    /\ pre[1][3] # pre[3][1]
    /\ grid # pre

====
